---- MODULE Spec2Model ----
(***************************************************************************)
(* Streaming combat orchestrator of arena-agent: the GET /:id/run handler  *)
(* of backend/src/routes/arena.ts, run by any number of concurrent         *)
(* requests against the durable store (tables arenas and chat_messages).   *)
(* Every await of the handler is one step; between two awaits the code is  *)
(* atomic (single-threaded event loop).                                    *)
(***************************************************************************)
EXTENDS Integers, Sequences, FiniteSets, TLC

\* ---------------------------------------------------------------- bounds
MaxItems == 2       \* items the agent produces, over all runs together

\* The run requests, numbered.  Two requests in flight together give every
\* interleaving of the handler with itself: two simultaneous requests, and
\* a retry that overlaps the run it retries.
Runs == {1, 2}

\* ------------------------------------------------------------ collaborators
\* Rows of table arenas that exist (createdBy never changes).
ArenaIds == {"a1"}
\* Ids a request may name: the existing arena and one that does not exist.
RequestIds == ArenaIds \cup {"a0"}
createdBy == [a \in ArenaIds |-> "u1"]

\* Authenticated users and their role column.
Users == {"u1", "u2", "root", "s1"}
\* The users and one whose session carries no role ("").
Accounts == Users \cup {"n1"}
roleOf == [u \in Accounts |->
             CASE u = "root" -> "admin"
               [] u = "s1"   -> "spectator"
               [] u = "n1"   -> ""
               [] OTHER      -> "player"]

roleHierarchy == [spectator |-> 0, player |-> 1, admin |-> 2]

\* const userRole = user.role ?? "spectator"
userRole(user) == IF roleOf[user] = "" THEN "spectator" ELSE roleOf[user]

\* requireRole(minimumRole): TRUE when the request is let through.
requireRole(minimumRole, user) ==
    ~ (roleHierarchy[userRole(user)] < roleHierarchy[minimumRole])

\* Items of result.fullStream.  The handler acts on text-delta and
\* tool-result; every other chunk type of the stream falls through both
\* branches of the if.
TextDelta(d) == [type |-> "text-delta", delta |-> d, toolName |-> "", result |-> ""]
ToolResult(n, res) == [type |-> "tool-result", delta |-> "", toolName |-> n, result |-> res]
OtherChunk == [type |-> "tool-call", delta |-> "", toolName |-> "rollDice", result |-> ""]
NoValue == [type |-> "none", delta |-> "", toolName |-> "", result |-> ""]

Deltas == {"a", "b"}
StreamItems == {TextDelta(d) : d \in Deltas}
                 \cup {ToolResult("rollDice", "7"), OtherChunk}

VARIABLES
    arenas,        \* table arenas: id -> [status]
    chatMessages,  \* table chat_messages, rows in insertion order
    pc,            \* per request: the await the handler is suspended at
    request,       \* per request: c.req.param("id") and c.get("user").id as received
    connected,     \* per request: the client still holds its end of the connection
    arenaId,       \* per request: c.req.param("id") once the arena was found
    response,      \* per request: the HTTP response returned, status 0 = none yet
    eventId,       \* per run: let eventId
    fullText,      \* per run: let fullText
    value,         \* per run: the item reader.read() last returned
    errorMessage,  \* per run: errorMessage of the catch block, "" = nothing caught
    sse,           \* per run: the events written to the stream, in order
    items,         \* per run: every item the agent stream has produced (history)
    agentInvoked,  \* per run: arenaMasterAgent.stream was called (history)
    call,          \* the last call of a tool or helper of agent/tools.ts: input and output
    page           \* the arena page in one viewer's browser: its React state and EventSources

vars == <<arenas, chatMessages, pc, request, connected, arenaId, response, eventId,
          fullText, value, errorMessage, sse, items, agentInvoked, call, page>>

\* The state of the orchestrator, which no tool reads or writes.
orchestrator == <<arenas, chatMessages, pc, request, connected, arenaId, response,
                  eventId, fullText, value, errorMessage, sse, items, agentInvoked>>

runLocal == <<eventId, fullText, value, errorMessage, sse, items, agentInvoked>>

\* A call of a tool: its input and, once it has returned, its output.
Call(t, in) == [tool |-> t, input |-> in, output |-> <<>>, returned |-> FALSE]
Return(out) == [call EXCEPT !.output = out, !.returned = TRUE]
Returned(t) == call.tool = t /\ call.returned
NoCall == Call("", <<>>)
NoRequest == [id |-> "", user |-> ""]
\* No arena page is mounted.
NoPage == [mounted |-> FALSE]
NoResponse == [status |-> 0, error |-> ""]
Json(code, msg) == [status |-> code, error |-> msg]
\* streamSSE returns the 200 text/event-stream response at once.
StreamResponse == [status |-> 200, error |-> ""]

RECURSIVE SumLen(_, _)
SumLen(f, S) == IF S = {} THEN 0
                ELSE LET x == CHOOSE y \in S : TRUE
                     IN  Len(f[x]) + SumLen(f, S \ {x})

\* Items produced so far by the agent over all runs (bounded by MaxItems).
Produced == SumLen(items, Runs)

\* db.select().from(chatMessages).where(eq(arenaId, id))
MessagesOf(id) == SelectSeq(chatMessages, LAMBDA m : m.arenaId = id)

Init ==
    /\ arenas = [a \in ArenaIds |-> [status |-> "setup"]]
    /\ chatMessages = <<>>
    /\ pc = [r \in Runs |-> "idle"]
    /\ request = [r \in Runs |-> NoRequest]
    /\ connected = [r \in Runs |-> TRUE]
    /\ arenaId = [r \in Runs |-> "a0"]
    /\ response = [r \in Runs |-> NoResponse]
    /\ eventId = [r \in Runs |-> 0]
    /\ fullText = [r \in Runs |-> ""]
    /\ value = [r \in Runs |-> NoValue]
    /\ errorMessage = [r \in Runs |-> ""]
    /\ sse = [r \in Runs |-> <<>>]
    /\ items = [r \in Runs |-> <<>>]
    /\ agentInvoked = [r \in Runs |-> FALSE]
    /\ page = NoPage
    /\ call = NoCall


\* ------------------------------------------------------------ wire events
\* The argument of stream.writeSSE: event name, id and the JSON data object.
NoData == [status |-> "", text |-> "", toolName |-> "", result |-> "", error |-> ""]
StatusEvent_CopyPaste(st) == [event |-> "status", data |-> [NoData EXCEPT !.status = "active"]]
StatusEvent(st) == [event |-> "status", data |-> [NoData EXCEPT !.status = st]]
ChunkEvent(text) == [event |-> "chunk", data |-> [NoData EXCEPT !.text = text]]
ToolResultEvent(v) ==
    [event |-> "tool-result",
     data |-> [NoData EXCEPT !.toolName = v.toolName, !.result = v.result]]
ErrorEvent(msg) == [event |-> "error", data |-> [NoData EXCEPT !.error = msg]]

RECURSIVE SumOf(_, _)
SumOf(f, S) == IF S = {} THEN 0
               ELSE LET x == CHOOSE y \in S : TRUE
                    IN  f[x] + SumOf(f, S \ {x})

\* A counter shared by every run of the process.
EventIdString_Shared(r) == ToString(SumOf(eventId, Runs))
\* id: String(eventId++) -- the decimal string of the run's own counter.
EventIdString(r) == ToString(eventId[r])

\* Adjacent chunk events batched into one.
writeSSE_Coalesce(r, ev) ==
    /\ LET q == sse[r]
           n == Len(q)
       IN  sse' = [sse EXCEPT ![r] =
                     IF ev.event = "chunk" /\ n > 0 /\ q[n].event = "chunk"
                     THEN [q EXCEPT ![n].data.text = @ \o ev.data.text]
                     ELSE Append(q, [event |-> ev.event, id |-> EventIdString(r),
                                     data |-> ev.data])]
    /\ eventId' = [eventId EXCEPT ![r] = @ + 1]

\* await stream.writeSSE({data, event, id: String(eventId++)}).  The write
\* itself never rejects: hono's StreamingApi.write swallows a failed write.
writeSSE(r, ev) ==
    /\ sse' = [sse EXCEPT ![r] =
                 Append(@, [event |-> ev.event, id |-> EventIdString(r),
                            data |-> ev.data])]
    /\ eventId' = [eventId EXCEPT ![r] = @ + 1]

AlreadyRan_OffByOne(existingMessages) == Len(existingMessages) > 1
\* if (existingMessages.length > 0)
AlreadyRan(existingMessages) == Len(existingMessages) > 0

Accumulate_All(text, v) == text \o v.delta \o v.result
\* fullText += text, in the text-delta branch only.
Accumulate(text, v) == IF v.type = "text-delta" THEN text \o v.delta ELSE text

RevertStatus_Stuck == "active"
\* The status the catch block writes back.
RevertStatus == "setup"

\* db.update(arenas).set({status}).where(eq(id, a))
UpdateStatus(a, st) == arenas' = [arenas EXCEPT ![a].status = st]

IsForbidden_CreatorOnly(id, user) == createdBy[id] # user
\* arena.createdBy !== user.id && user.role !== "admin"
IsForbidden(id, user) == createdBy[id] # user /\ roleOf[user] # "admin"

\* ------------------------------------------------------------------ actions
\* GET /:id/run up to the first query: requireAuth, requireRole("player"),
\* the arena lookup and the ownership check.
StartRun(r) ==
    /\ pc[r] = "idle"
    /\ \E id \in RequestIds, user \in Users :
         /\ request' = [request EXCEPT ![r] = [id |-> id, user |-> user]]
         /\ IF ~ requireRole("player", user)
            THEN /\ response' = [response EXCEPT ![r] =
                                   Json(403, "Requires player role or higher")]
                 /\ pc' = [pc EXCEPT ![r] = "rejected"]
                 /\ UNCHANGED arenaId
            ELSE IF id \notin ArenaIds
            THEN /\ response' = [response EXCEPT ![r] = Json(404, "Arena not found")]
                 /\ pc' = [pc EXCEPT ![r] = "rejected"]
                 /\ UNCHANGED arenaId
            ELSE IF IsForbidden(id, user)
            THEN /\ response' = [response EXCEPT ![r] = Json(403, "Forbidden")]
                 /\ pc' = [pc EXCEPT ![r] = "rejected"]
                 /\ UNCHANGED arenaId
            ELSE /\ arenaId' = [arenaId EXCEPT ![r] = id]
                 /\ pc' = [pc EXCEPT ![r] = "selectMessages"]
                 /\ UNCHANGED response
    /\ UNCHANGED <<call, page, arenas, chatMessages, connected, runLocal>>

\* The existing-transcript check; when it passes, streamSSE starts the
\* callback, which runs up to its first await (the status update).
SelectMessages(r) ==
    /\ pc[r] = "selectMessages"
    /\ LET existingMessages == MessagesOf(arenaId[r])
       IN  IF AlreadyRan(existingMessages)
           THEN /\ response' = [response EXCEPT ![r] =
                                  Json(400, "Combat already ran for this arena")]
                /\ pc' = [pc EXCEPT ![r] = "rejected"]
           ELSE /\ response' = [response EXCEPT ![r] = StreamResponse]
                /\ pc' = [pc EXCEPT ![r] = "updateActive"]
    /\ UNCHANGED <<call, page, arenas, chatMessages, request, connected, arenaId, runLocal>>

\* Mark arena as active.  The update is outside the try block: when it
\* throws, the callback ends with the exception and the stream is closed.
UpdateActive(r) ==
    /\ pc[r] = "updateActive"
    /\ \/ /\ UpdateStatus(arenaId[r], "active")
          /\ pc' = [pc EXCEPT ![r] = "writeActive"]
       \/ /\ pc' = [pc EXCEPT ![r] = "crashed"]
          /\ UNCHANGED arenas
    /\ UNCHANGED <<call, page, chatMessages, request, connected, arenaId, response, runLocal>>

\* The status=active event; then the try block is entered and
\* arenaMasterAgent.stream(prompt, {maxSteps: 100}) is called.
WriteActive(r) ==
    /\ pc[r] = "writeActive"
    /\ writeSSE(r, StatusEvent("active"))
    /\ agentInvoked' = [agentInvoked EXCEPT ![r] = TRUE]
    /\ pc' = [pc EXCEPT ![r] = "agentStream"]
    /\ UNCHANGED <<call, page, arenas, chatMessages, request, connected, arenaId, response, fullText, value,
                   errorMessage, items>>

\* await arenaMasterAgent.stream(...) settles; let fullText = "".
AgentStream(r) ==
    /\ pc[r] = "agentStream"
    /\ \/ /\ fullText' = [fullText EXCEPT ![r] = ""]
          /\ pc' = [pc EXCEPT ![r] = "read"]
          /\ UNCHANGED errorMessage
       \/ /\ errorMessage' = [errorMessage EXCEPT ![r] = "agent stream failed to start"]
          /\ pc' = [pc EXCEPT ![r] = "writeError"]
          /\ UNCHANGED fullText
    /\ UNCHANGED <<call, page, arenas, chatMessages, request, connected, arenaId, response, eventId, value,
                   sse, items, agentInvoked>>

\* await reader.read(): the stream is done, fails, or yields the next item.
ReaderRead(r) ==
    /\ pc[r] = "read"
    /\ \/ /\ pc' = [pc EXCEPT ![r] = "insertMessage"]
          /\ UNCHANGED <<fullText, value, errorMessage, items>>
       \/ /\ errorMessage' = [errorMessage EXCEPT ![r] = "agent stream failed"]
          /\ pc' = [pc EXCEPT ![r] = "writeError"]
          /\ UNCHANGED <<fullText, value, items>>
       \/ /\ Produced < MaxItems
          /\ \E v \in StreamItems :
               /\ items' = [items EXCEPT ![r] = Append(@, v)]
               /\ value' = [value EXCEPT ![r] = v]
               /\ fullText' = [fullText EXCEPT ![r] = Accumulate(@, v)]
               /\ pc' = [pc EXCEPT ![r] =
                           CASE v.type = "text-delta"  -> "writeChunk"
                             [] v.type = "tool-result" -> "writeToolResult"
                             [] OTHER                  -> "read"]
          /\ UNCHANGED errorMessage
    /\ UNCHANGED <<call, page, arenas, chatMessages, request, connected, arenaId, response, eventId, sse,
                   agentInvoked>>

\* The chunk event of the text-delta just read.
WriteChunk(r) ==
    /\ pc[r] = "writeChunk"
    /\ writeSSE(r, ChunkEvent(value[r].delta))
    /\ pc' = [pc EXCEPT ![r] = "read"]
    /\ UNCHANGED <<call, page, arenas, chatMessages, request, connected, arenaId, response, fullText, value,
                   errorMessage, items, agentInvoked>>

\* The tool-result event of the tool result just read.
WriteToolResult(r) ==
    /\ pc[r] = "writeToolResult"
    /\ writeSSE(r, ToolResultEvent(value[r]))
    /\ pc' = [pc EXCEPT ![r] = "read"]
    /\ UNCHANGED <<call, page, arenas, chatMessages, request, connected, arenaId, response, fullText, value,
                   errorMessage, items, agentInvoked>>

\* Save the full combat log as a single assistant message (id: nanoid(),
\* modelled by the run that inserts the row).
InsertMessage(r) ==
    /\ pc[r] = "insertMessage"
    /\ \/ /\ chatMessages' = Append(chatMessages,
                [id |-> r, arenaId |-> arenaId[r], userId |-> request[r].user,
                 role |-> "assistant", content |-> fullText[r]])
          /\ pc' = [pc EXCEPT ![r] = "updateCompleted"]
          /\ UNCHANGED errorMessage
       \/ /\ errorMessage' = [errorMessage EXCEPT ![r] = "insert failed"]
          /\ pc' = [pc EXCEPT ![r] = "writeError"]
          /\ UNCHANGED chatMessages
    /\ UNCHANGED <<call, page, arenas, request, connected, arenaId, response, eventId, fullText, value, sse,
                   items, agentInvoked>>

\* Mark arena completed.
UpdateCompleted(r) ==
    /\ pc[r] = "updateCompleted"
    /\ \/ /\ UpdateStatus(arenaId[r], "completed")
          /\ pc' = [pc EXCEPT ![r] = "writeCompleted"]
          /\ UNCHANGED errorMessage
       \/ /\ errorMessage' = [errorMessage EXCEPT ![r] = "update failed"]
          /\ pc' = [pc EXCEPT ![r] = "writeError"]
          /\ UNCHANGED arenas
    /\ UNCHANGED <<call, page, chatMessages, request, connected, arenaId, response, eventId, fullText, value,
                   sse, items, agentInvoked>>

\* The status=completed event; the callback returns and the stream closes.
WriteCompleted(r) ==
    /\ pc[r] = "writeCompleted"
    /\ writeSSE(r, StatusEvent("completed"))
    /\ pc' = [pc EXCEPT ![r] = "done"]
    /\ UNCHANGED <<call, page, arenas, chatMessages, request, connected, arenaId, response, fullText, value,
                   errorMessage, items, agentInvoked>>

\* catch (err): the error event.
WriteError(r) ==
    /\ pc[r] = "writeError"
    /\ writeSSE(r, ErrorEvent(errorMessage[r]))
    /\ pc' = [pc EXCEPT ![r] = "updateSetup"]
    /\ UNCHANGED <<call, page, arenas, chatMessages, request, connected, arenaId, response, fullText, value,
                   errorMessage, items, agentInvoked>>

\* catch (err): mark arena as setup so it can be retried.  When this update
\* throws, the callback ends with the exception and the stream is closed.
UpdateSetup(r) ==
    /\ pc[r] = "updateSetup"
    /\ \/ /\ UpdateStatus(arenaId[r], RevertStatus)
          /\ pc' = [pc EXCEPT ![r] = "done"]
       \/ /\ pc' = [pc EXCEPT ![r] = "crashed"]
          /\ UNCHANGED arenas
    /\ UNCHANGED <<call, page, chatMessages, request, connected, arenaId, response, runLocal>>

\* The handler has been taken off its request: nothing of it runs again.
Disconnect_Cancels(r) ==
    /\ response[r].status = 200
    /\ pc[r] \notin {"done", "crashed"}
    /\ connected[r]
    /\ connected' = [connected EXCEPT ![r] = FALSE]
    /\ pc' = [pc EXCEPT ![r] = "cancelled"]
    /\ UNCHANGED <<call, page, arenas, chatMessages, request, arenaId, response, runLocal>>

\* The client closes the EventSource (or goes away) while the stream is
\* open.  The handler registers nothing on the abort of the request and
\* passes no signal to the agent: only the client's end changes.
Disconnect(r) ==
    /\ response[r].status = 200
    /\ pc[r] \notin {"done", "crashed"}
    /\ connected[r]
    /\ connected' = [connected EXCEPT ![r] = FALSE]
    /\ UNCHANGED <<call, page, arenas, chatMessages, pc, request, arenaId, response, runLocal>>

\* The steps of the handler of request r after its arrival.
Handler(r) ==
    \/ SelectMessages(r)
    \/ UpdateActive(r)
    \/ WriteActive(r)
    \/ AgentStream(r)
    \/ ReaderRead(r)
    \/ WriteChunk(r)
    \/ WriteToolResult(r)
    \/ InsertMessage(r)
    \/ UpdateCompleted(r)
    \/ WriteCompleted(r)
    \/ WriteError(r)
    \/ UpdateSetup(r)

Next ==
    \E r \in Runs :
        \/ StartRun(r)
        \/ SelectMessages(r)
        \/ UpdateActive(r)
        \/ WriteActive(r)
        \/ AgentStream(r)
        \/ ReaderRead(r)
        \/ WriteChunk(r)
        \/ WriteToolResult(r)
        \/ InsertMessage(r)
        \/ UpdateCompleted(r)
        \/ WriteCompleted(r)
        \/ WriteError(r)
        \/ UpdateSetup(r)

Spec == Init /\ [][Next]_vars

\* One request whose client may go away at any point of the stream.  The
\* handlers share nothing but the store, which a disconnect does not touch.
\* Every await of the handler settles: the store answers or throws, the
\* agent stream yields, ends or fails.
NextDisconnect ==
    \E r \in {1} :
        \/ StartRun(r)
        \/ Handler(r)
        \/ Disconnect(r)

DisconnectSpec ==
    Init /\ [][NextDisconnect]_vars /\ WF_vars(Handler(1))

\* -------------------------------------------------------- type invariant
Statuses == {"setup", "active", "completed"}
TypeOK ==
    /\ \A a \in ArenaIds : arenas[a].status \in Statuses
    /\ \A r \in Runs : eventId[r] >= 0


\* ------------------------------------------------------ derived notions
\* Rows of chat_messages inserted by run r.
RowsBy(r) == SelectSeq(chatMessages, LAMBDA m : m.id = r)

\* The run owns the encounter: its status=active write is done and its
\* final store write (status=completed or the revert) is still to come.
InProgress(r) ==
    pc[r] \in {"writeActive", "agentStream", "read", "writeChunk",
               "writeToolResult", "insertMessage", "updateCompleted",
               "writeError", "updateSetup"}

\* The callback of the run has returned or thrown.
Ended(r) == pc[r] \in {"done", "crashed"}

IsItemEvent(e) == e.event \in {"chunk", "tool-result"}
IsHandled(v) == v.type \in {"text-delta", "tool-result"}
ItemEvents(r) == SelectSeq(sse[r], IsItemEvent)
ErrorEvents(r) == SelectSeq(sse[r], LAMBDA e : e.event = "error")
HandledItems(r) == SelectSeq(items[r], IsHandled)

\* Event e re-emits item v: same kind, same payload.
ReEmits(e, v) ==
    \/ /\ v.type = "text-delta"
       /\ e.event = "chunk"
       /\ e.data.text = v.delta
    \/ /\ v.type = "tool-result"
       /\ e.event = "tool-result"
       /\ e.data.toolName = v.toolName
       /\ e.data.result = v.result

RECURSIVE ConcatDeltas(_)
ConcatDeltas(its) ==
    IF its = <<>> THEN ""
    ELSE (IF Head(its).type = "text-delta" THEN Head(its).delta ELSE "")
           \o ConcatDeltas(Tail(its))

RECURSIVE ConcatChunks(_)
ConcatChunks(evs) ==
    IF evs = <<>> THEN ""
    ELSE (IF Head(evs).event = "chunk" THEN Head(evs).data.text ELSE "")
           \o ConcatChunks(Tail(evs))

AgentErrors == {"agent stream failed to start", "agent stream failed"}

\* ------------------------------------------------------------------ claims

\* C1: over any interleaving of run requests against one encounter, at most
\* one transcript message is ever persisted for that encounter.
C1_AtMostOneTranscript ==
    \A a \in ArenaIds : Len(MessagesOf(a)) <= 1

\* C2: a run request that finds a persisted transcript at its check is
\* answered 400 (AlreadyRun) and changes nothing: status and messages are
\* unchanged, the agent is not invoked, and no wire event is ever emitted.
C2_AlreadyRunNoSideEffects ==
    [][\A r \in Runs :
         /\ (pc[r] = "selectMessages" /\ pc'[r] # "selectMessages"
               /\ MessagesOf(arenaId[r]) # <<>>)
              => /\ pc'[r] = "rejected"
                 /\ response'[r].status = 400
                 /\ arenas' = arenas
                 /\ chatMessages' = chatMessages
         /\ pc'[r] = "rejected"
              => /\ sse'[r] = <<>>
                 /\ items'[r] = <<>>
                 /\ ~ agentInvoked'[r]
                 /\ RowsBy(r)' = <<>>]_vars

C2_Witness ==
    \E r \in Runs : pc[r] = "rejected" /\ response[r].status = 400

\* C3: after a failed run has ended (its catch block has run to its end and
\* no other run is in progress) the persisted status is not 'active', and
\* if it is 'setup' no transcript exists, so that a new run is accepted.
C3_RetryableAfterFailure ==
    \A r \in Runs :
        (/\ pc[r] = "done"
         /\ errorMessage[r] # ""
         /\ \A q \in Runs : ~ InProgress(q))
          => /\ arenas[arenaId[r]].status # "active"
             /\ arenas[arenaId[r]].status = "setup"
                  => MessagesOf(arenaId[r]) = <<>>

C6_StatusTransitions ==
    [][\A a \in ArenaIds :
         arenas'[a].status # arenas[a].status
           => <<arenas[a].status, arenas'[a].status>> \in
                {<<"setup", "active">>, <<"active", "completed">>,
                 <<"active", "setup">>}]_vars

\* C7: at any time at most one run is in progress for a given encounter.
C7_OneRunInProgress ==
    \A a \in ArenaIds :
        Cardinality({r \in Runs : InProgress(r) /\ arenaId[r] = a}) <= 1

\* C8: within one run the chunk and tool-result events are, one to one and
\* in order, the text-delta and tool-result items the agent produced, each
\* with the same kind and payload; only the item just read may still be
\* unwritten.
C8_ItemsReEmittedInOrder ==
    \A r \in Runs :
        LET evs == ItemEvents(r)
            its == HandledItems(r)
            pending == IF pc[r] \in {"writeChunk", "writeToolResult"} THEN 1 ELSE 0
        IN  /\ Len(evs) = Len(its) - pending
            /\ \A k \in 1..Len(evs) : ReEmits(evs[k], its[k])

C8_Witness ==
    \E r \in Runs :
        /\ Len(ItemEvents(r)) = 2
        /\ ItemEvents(r)[1].event # ItemEvents(r)[2].event

\* C9: the events of a run carry the ids "0", "1", "2", ... in emission
\* order, whatever the other runs emit.
C9_EventIds ==
    \A r \in Runs :
        \A i \in 1..Len(sse[r]) : sse[r][i].id = ToString(i - 1)

C9_Witness ==
    \E r, q \in Runs :
        /\ r # q
        /\ Len(sse[r]) >= 2
        /\ Len(sse[q]) >= 2
        /\ ErrorEvents(r) # <<>>
        /\ ErrorEvents(q) = <<>>

\* C10: every persisted transcript is the concatenation, in arrival order,
\* of the text of the text-delta items of its run and nothing else, and it
\* is the concatenation of the texts of the chunk events of that run.
C10_TranscriptIsConcatenation ==
    \A i \in 1..Len(chatMessages) :
        LET m == chatMessages[i]
        IN  /\ m.content = ConcatDeltas(items[m.id])
            /\ m.content = ConcatChunks(sse[m.id])

C10_Witness ==
    \E i \in 1..Len(chatMessages) :
        LET m == chatMessages[i]
        IN  /\ m.content \in {"a", "b"}
            /\ \E k \in 1..Len(items[m.id]) : items[m.id][k].type = "tool-result"


\* C11: a run request let through by the role middleware is answered 404
\* exactly when the arena does not exist, and 403 'Forbidden' exactly when
\* the arena exists and the caller is neither its creator nor an admin
\* (also when the arena already has a transcript, which would give 400 at
\* the later check); either rejection comes with no store write, no agent
\* call and no stream.
C11_NotFoundForbidden ==
    [][\A r \in Runs :
         (pc[r] = "idle" /\ pc'[r] # "idle"
            /\ roleOf[request'[r].user] \in {"player", "admin"})
           => LET id == request'[r].id
                  user == request'[r].user
                  missing == id \notin ArenaIds
                  stranger == /\ ~ missing
                              /\ createdBy[id] # user
                              /\ roleOf[user] # "admin"
              IN  /\ missing <=> response'[r] = Json(404, "Arena not found")
                  /\ stranger <=> response'[r] = Json(403, "Forbidden")
                  /\ (missing \/ stranger) <=> pc'[r] = "rejected"
                  /\ pc'[r] = "rejected"
                       => /\ arenas' = arenas
                          /\ chatMessages' = chatMessages
                          /\ sse'[r] = <<>>
                          /\ ~ agentInvoked'[r]
                  /\ response'[r].status # 200]_vars

C11_Witness ==
    \E r \in Runs :
        /\ pc[r] = "rejected"
        /\ response[r] = Json(403, "Forbidden")
        /\ MessagesOf(request[r].id) # <<>>


\* C12: a run whose client has gone is not cancelled: it goes on to its end,
\* which is the transcript persisted and 'completed' written, or the revert
\* to 'setup' written, or a store write of the run refused outside the try
\* block; the disconnect itself changes nothing on the server, and an error
\* is only ever caught at a step of the agent or of the store.
RanToCompleted(r) ==
    pc[r] = "done" /\ errorMessage[r] = "" /\ Len(RowsBy(r)) = 1
RanToReverted(r) == pc[r] = "done" /\ errorMessage[r] # ""
StoreRefused(r) == pc[r] = "crashed"

Digit == {"0", "1", "2", "3", "4", "5", "6", "7", "8", "9"}
DigitChars == <<"0", "1", "2", "3", "4", "5", "6", "7", "8", "9">>
DigitValue(c) == (CHOOSE i \in 1..10 : DigitChars[i] = c) - 1

\* Canonicalisation of the i flag on the letters of the two patterns.
Canonicalize(c) ==
    CASE c = "D" -> "d"
      [] c = "K" -> "k"
      [] c = "H" -> "h"
      [] c = "L" -> "l"
      [] OTHER   -> c

\* String.prototype.toLowerCase applied to the matched selector.
LowerCase(c) ==
    CASE c = "D" -> "d"
      [] c = "K" -> "k"
      [] c = "H" -> "h"
      [] c = "L" -> "l"
      [] OTHER   -> c
toLowerCase(t) == [i \in 1..Len(t) |-> LowerCase(t[i])]

\* \d+
IsDigits(t) == Len(t) >= 1 /\ \A i \in 1..Len(t) : t[i] \in Digit

\* Number.parseInt(t, 10) of a matched group: an optional sign, then digits.
RECURSIVE DecimalValue(_)
DecimalValue(t) ==
    IF t = <<>> THEN 0
    ELSE 10 * DecimalValue(SubSeq(t, 1, Len(t) - 1)) + DigitValue(t[Len(t)])

parseInt(t) ==
    IF t[1] = "-" THEN 0 - DecimalValue(Tail(t))
    ELSE IF t[1] = "+" THEN DecimalValue(Tail(t))
    ELSE DecimalValue(t)

KeepDropTypes == {<<"k", "h">>, <<"k", "l">>, <<"d", "h">>, <<"d", "l">>}

\* (?:(kh|kl|dh|dl)(\d+))?  -- the group matches t, or is skipped on "".
KeepDropGroup(t) ==
    \/ t = <<>>
    \/ /\ Len(t) >= 3
       /\ <<Canonicalize(t[1]), Canonicalize(t[2])>> \in KeepDropTypes
       /\ IsDigits(SubSeq(t, 3, Len(t)))

\* ([+-]\d+)?
ModifierGroup(t) ==
    \/ t = <<>>
    \/ /\ t[1] \in {"+", "-"}
       /\ IsDigits(Tail(t))

\* notation.match(/^(\d+)d(\d+)(?:(kh|kl|dh|dl)(\d+))?([+-]\d+)?$/i): the
\* ways to cut the whole string into the groups.  i, j, k are the last
\* positions of count, sides and the keep/drop group.
DiceMatches(notation) ==
    LET n == Len(notation) IN
    {c \in (1..n) \X (1..n) \X (1..n) :
        /\ c[1] + 1 < c[2] /\ c[2] <= c[3]
        /\ IsDigits(SubSeq(notation, 1, c[1]))
        /\ Canonicalize(notation[c[1] + 1]) = "d"
        /\ IsDigits(SubSeq(notation, c[1] + 2, c[2]))
        /\ KeepDropGroup(SubSeq(notation, c[2] + 1, c[3]))
        /\ ModifierGroup(SubSeq(notation, c[3] + 1, n))}

Thrown(msg) == [ok |-> FALSE, error |-> msg]
Null == [type |-> "null", n |-> 0]
TypeString(t) == CASE t = <<"k", "h">> -> "kh"
                   [] t = <<"k", "l">> -> "kl"
                   [] t = <<"d", "h">> -> "dh"
                   [] t = <<"d", "l">> -> "dl"

parseDiceNotation(notation) ==
    IF DiceMatches(notation) = {}
    THEN Thrown("Invalid dice notation")
    ELSE LET c == CHOOSE m \in DiceMatches(notation) : TRUE
             n == Len(notation)
             kd == SubSeq(notation, c[2] + 1, c[3])
             md == SubSeq(notation, c[3] + 1, n)
         IN [ok |-> TRUE,
             count |-> parseInt(SubSeq(notation, 1, c[1])),
             sides |-> parseInt(SubSeq(notation, c[1] + 2, c[2])),
             keepDrop |-> IF kd # <<>>
                          THEN [type |-> TypeString(toLowerCase(SubSeq(kd, 1, 2))),
                                n |-> parseInt(SubSeq(kd, 3, Len(kd)))]
                          ELSE Null,
             modifier |-> IF md # <<>> THEN parseInt(md) ELSE 0]

\* [...rolls].sort((a, b) => a - b)
RECURSIVE Insert(_, _)
Insert(sorted, x) ==
    IF sorted = <<>> THEN <<x>>
    ELSE IF x < Head(sorted) THEN <<x>> \o sorted
    ELSE <<Head(sorted)>> \o Insert(Tail(sorted), x)
RECURSIVE Sort(_)
Sort(rolls) ==
    IF rolls = <<>> THEN <<>>
    ELSE Insert(Sort(SubSeq(rolls, 1, Len(rolls) - 1)), rolls[Len(rolls)])

Min(a, b) == IF a < b THEN a ELSE b
Max(a, b) == IF a > b THEN a ELSE b

\* Array.prototype.slice(start, end): a negative index counts from the
\* end, both are clamped to 0..length; indices are 0-based, end excluded.
Slice(array, start, end) ==
    LET len == Len(array)
        k == IF start < 0 THEN Max(len + start, 0) ELSE Min(start, len)
        final == IF end < 0 THEN Max(len + end, 0) ELSE Min(end, len)
    IN SubSeq(array, k + 1, final)

\* case "kh": sorted.slice(-n)
KeepHighest_FromIndex(sorted, n) == Slice(sorted, Len(sorted) - n, Len(sorted))
KeepHighest(sorted, n) == Slice(sorted, 0 - n, Len(sorted))
\* case "kl": sorted.slice(0, n)
KeepLowest(sorted, n) == Slice(sorted, 0, n)
\* case "dh": sorted.slice(0, Math.max(0, sorted.length - n))
DropHighest_NegativeEnd(sorted, n) == Slice(sorted, 0, 0 - n)
DropHighest(sorted, n) == Slice(sorted, 0, Max(0, Len(sorted) - n))
\* case "dl": sorted.slice(n)
DropLowest(sorted, n) == Slice(sorted, n, Len(sorted))

applyKeepDrop(rolls, keepDrop) ==
    IF keepDrop = Null THEN rolls
    ELSE LET sorted == Sort(rolls)
             n == keepDrop.n
         IN CASE keepDrop.type = "kh" -> KeepHighest(sorted, n)
              [] keepDrop.type = "kl" -> KeepLowest(sorted, n)
              [] keepDrop.type = "dh" -> DropHighest(sorted, n)
              [] keepDrop.type = "dl" -> DropLowest(sorted, n)

RECURSIVE Sum(_)
Sum(seq) == IF seq = <<>> THEN 0 ELSE Head(seq) + Sum(Tail(seq))

\* Math.floor(Math.random() * sides) + 1, Math.random() in [0, 1).
DieFaces(sides) == IF sides = 0 THEN {1} ELSE 1..sides

\* rollDiceTool.execute on its rolls.
rollDice(notation, parsed, rolls) ==
    LET kept == applyKeepDrop(rolls, parsed.keepDrop) IN
    [ok |-> TRUE, notation |-> notation, rolls |-> rolls, kept |-> kept,
     modifier |-> parsed.modifier, total |-> Sum(kept) + parsed.modifier]

\* damageDice.match(/^(\d+)d(\d+)([+-]\d+)?$/i): the ways to cut the string
\* into the groups; c[1], c[2] are the last positions of count and sides
\* and c[3] is where the match ends.
DamageMatches_Unanchored(damageDice) ==
    LET n == Len(damageDice) IN
    {c \in (1..n) \X (1..n) \X (1..n) :
        /\ c[1] + 1 < c[2] /\ c[2] <= c[3]
        /\ IsDigits(SubSeq(damageDice, 1, c[1]))
        /\ Canonicalize(damageDice[c[1] + 1]) = "d"
        /\ IsDigits(SubSeq(damageDice, c[1] + 2, c[2]))
        /\ ModifierGroup(SubSeq(damageDice, c[2] + 1, c[3]))}
DamageMatches(damageDice) ==
    LET n == Len(damageDice) IN
    {c \in (1..n) \X (1..n) \X (1..n) :
        /\ c[1] + 1 < c[2] /\ c[2] <= c[3]
        /\ c[3] = n
        /\ IsDigits(SubSeq(damageDice, 1, c[1]))
        /\ Canonicalize(damageDice[c[1] + 1]) = "d"
        /\ IsDigits(SubSeq(damageDice, c[1] + 2, c[2]))
        /\ ModifierGroup(SubSeq(damageDice, c[2] + 1, c[3]))}

\* const hit = isCritical || (!isFumble && attackRoll >= targetAC)
Hit_NoFumble(isCritical, isFumble, attackRoll, targetAC) ==
    isCritical \/ attackRoll >= targetAC
Hit(isCritical, isFumble, attackRoll, targetAC) ==
    isCritical \/ (~ isFumble /\ attackRoll >= targetAC)

\* The dice of the damage of a roll that hits: count (doubled when
\* critical), sides and modifier of the match, or no match.
NoDice == [count |-> 0, sides |-> 0, modifier |-> 0, match |-> FALSE]
DamageDiceOf(damageDice, isCritical) ==
    IF DamageMatches(damageDice) = {} THEN NoDice
    ELSE LET c == CHOOSE m \in DamageMatches(damageDice) : TRUE
             md == SubSeq(damageDice, c[2] + 1, c[3])
         IN [count |-> parseInt(SubSeq(damageDice, 1, c[1]))
                          * (IF isCritical THEN 2 ELSE 1),
             sides |-> parseInt(SubSeq(damageDice, c[1] + 2, c[2])),
             modifier |-> IF md # <<>> THEN parseInt(md) ELSE 0,
             match |-> TRUE]

\* The template the narrative is made from, with the numbers it embeds.
Narrative(isCritical, isFumble, hit, attackRoll, naturalRoll, in, totalDamage) ==
    IF isCritical THEN <<"CRITICAL HIT", 20, totalDamage>>
    ELSE IF isFumble THEN <<"Critical miss", 1>>
    ELSE IF hit THEN <<"hit", attackRoll, naturalRoll, in.toHitBonus, in.targetAC, totalDamage>>
    ELSE <<"miss", attackRoll, naturalRoll, in.toHitBonus, in.targetAC>>

\* resolveAttackTool.execute on its natural roll and damage rolls.
resolveAttack(in, naturalRoll, damageRolls, dice) ==
    LET attackRoll == naturalRoll + in.toHitBonus
        isCritical == naturalRoll = 20
        isFumble == naturalRoll = 1
        hit == Hit(isCritical, isFumble, attackRoll, in.targetAC)
        totalDamage == IF hit /\ dice.match
                       THEN Max(0, Sum(damageRolls) + dice.modifier)
                       ELSE 0
    IN [ok |-> TRUE,
        attackRoll |-> attackRoll,
        naturalRoll |-> naturalRoll,
        isCritical |-> isCritical,
        isFumble |-> isFumble,
        hit |-> hit,
        damageRolls |-> damageRolls,
        totalDamage |-> totalDamage,
        narrative |-> Narrative(isCritical, isFumble, hit, attackRoll,
                                naturalRoll, in, totalDamage)]

\* `${n}` of an integer.
RECURSIVE NaturalToString(_)
NaturalToString(n) ==
    IF n < 10 THEN <<DigitChars[n + 1]>>
    ELSE NaturalToString(n \div 10) \o <<DigitChars[(n % 10) + 1]>>
NumberToString(n) ==
    IF n < 0 THEN <<"-">> \o NaturalToString(0 - n) ELSE NaturalToString(n)

\* generateStatBlockTool.execute.  A challenge rating and an ability score
\* may be fractional (z.number()): both are counted in quarters, 4 = 1.
\* A value of Math.random() is counted in sixtieths, 0..59, so that
\* Math.floor(Math.random() * m) is (m * r) \div 60 for m in 3, 4, 6.
DamageDiceTier(cr) ==
    IF cr <= 4 THEN <<"1", "d", "6">>
    ELSE IF cr <= 16 THEN <<"1", "d", "8">>
    ELSE IF cr <= 40 THEN <<"2", "d", "6">>
    ELSE IF cr <= 64 THEN <<"2", "d", "8">>
    ELSE <<"3", "d", "6">>

\* damageDice: `${damageDice}+${strMod}`
AttackDamageDice(tier, strMod) == tier \o <<"+">> \o NumberToString(strMod)

\* const cr = Math.max(0, Math.min(30, challengeRating))
ClampChallengeRating_NoFloor(challengeRating) == Min(120, challengeRating)
ClampChallengeRating(challengeRating) == Max(0, Min(120, challengeRating))

generateStatBlock(in, random) ==
    LET challengeRating == IF in.challengeRating = <<>> THEN 4
                           ELSE in.challengeRating[1]
        cr == ClampChallengeRating(challengeRating)
        baseScore == Min(40 + cr, 120)
        hp == Max(1, (120 + 45 * cr + 2 * random.hp) \div 12)
        ac == Min(10 + (cr \div 5) + ((3 * random.ac) \div 60), 25)
        profBonus == ((cr - 4) \div 16) + 2
        strength == Min(baseScore + 4 * ((4 * random.strength) \div 60) - 8, 120)
        dexterity == Min(baseScore + 4 * ((4 * random.dexterity) \div 60) - 8, 120)
        constitution == Min(baseScore + 4 * ((4 * random.constitution) \div 60) - 8, 120)
        intelligence == Min(4 * (8 + ((6 * random.intelligence) \div 60)), 120)
        wisdom == Min(4 * (8 + ((6 * random.wisdom) \div 60)), 120)
        charisma == Min(4 * (8 + ((6 * random.charisma) \div 60)), 120)
        strMod == (strength - 40) \div 8
    IN [ok |-> TRUE,
        id |-> "creature-",
        name |-> in.name,
        type |-> in.type,
        armorClass |-> ac,
        hitPoints |-> hp,
        maxHitPoints |-> hp,
        abilityScores |-> [strength |-> strength, dexterity |-> dexterity,
                           constitution |-> constitution,
                           intelligence |-> intelligence, wisdom |-> wisdom,
                           charisma |-> charisma],
        attacks |-> <<[name |-> IF in.type = "monster" THEN "Claw" ELSE "Longsword",
                       toHitBonus |-> strMod + profBonus,
                       damageDice |-> AttackDamageDice(DamageDiceTier(cr), strMod),
                       damageType |-> "slashing"]>>,
        conditions |-> <<>>,
        isAlive |-> TRUE]

\* abilityModifierTool.execute
abilityModifier(score) ==
    LET modifier == (score - 10) \div 2 IN
    [ok |-> TRUE, score |-> score, modifier |-> modifier,
     modifierString |-> IF modifier >= 0
                        THEN <<"+">> \o NumberToString(modifier)
                        ELSE NumberToString(modifier)]

\* calculateAbilityModifier: Math.floor((score - 10) / 2)
calculateAbilityModifier_Truncate(score) ==
    LET modifier == IF score >= 10 THEN (score - 10) \div 2
                    ELSE 0 - ((10 - score) \div 2) IN
    [ok |-> TRUE, score |-> score, modifier |-> modifier,
     modifierString |-> IF modifier >= 0
                        THEN <<"+">> \o NumberToString(modifier)
                        ELSE NumberToString(modifier)]
calculateAbilityModifier(score) ==
    LET modifier == (score - 10) \div 2 IN
    [ok |-> TRUE, score |-> score, modifier |-> modifier,
     modifierString |-> IF modifier >= 0
                        THEN <<"+">> \o NumberToString(modifier)
                        ELSE NumberToString(modifier)]

\* ------------------------------------------------------- inputs of tools
\* notation: z.string().  Every string of at most MaxLen of these
\* characters, and the longer strings put together from these pieces.
MaxLen == 3
Chars == {"0", "1", "2", "d", "D", "k", "h", "+", "-", " "}
ShortStrings == UNION {[1..n -> Chars] : n \in 0..MaxLen}

CountTexts == {<<"1">>, <<"2">>, <<"0">>, <<"1", "2">>, <<"0", "4">>, <<>>}
SeparatorTexts == {<<"d">>, <<"D">>, <<" ", "d">>, <<"x">>}
SidesTexts == {<<"6">>, <<"2", "0">>, <<"0">>, <<>>}
KeepDropTexts ==
    {<<>>, <<"k", "h", "1">>, <<"K", "H", "1">>, <<"k", "l", "1">>,
     <<"d", "l", "1">>, <<"d", "h", "1">>, <<"D", "l", "0">>,
     <<"k", "h", "3">>, <<"k", "h">>, <<"k", "x", "1">>, <<"k", "1">>,
     <<"k", "h", " ", "1">>}
ModifierTexts ==
    {<<>>, <<"+", "3">>, <<"-", "2">>, <<"+">>, <<"+", "-", "1">>,
     <<" ", "+", "3">>, <<"3">>, <<"+", "1", "0">>}
TrailTexts == {<<>>, <<" ">>}
LongStrings ==
    {a \o b \o c \o d \o e \o f :
        a \in CountTexts, b \in SeparatorTexts, c \in SidesTexts,
        d \in KeepDropTexts, e \in ModifierTexts, f \in TrailTexts}
Notations == ShortStrings \cup LongStrings

\* rolls: number[], keepDrop: KeepDrop | null.
MaxRolls == 3
MaxSides == 3
RollSeqs == UNION {[1..n -> 1..MaxSides] : n \in 0..MaxRolls}
KeepDrops ==
    {Null} \cup [type : {"kh", "kl", "dh", "dl"}, n : 0..(MaxRolls + 1)]

\* Notations the agent rolls.
RollNotations ==
    {<<"2", "d", "2", "0", "k", "h", "1", "+", "5">>,
     <<"2", "d", "2", "0", "k", "l", "1">>,
     <<"4", "d", "3", "d", "l", "1">>,
     <<"2", "d", "6", "+", "3">>,
     <<"3", "d", "4", "K", "H", "0">>,
     <<"2", "d", "0">>,
     <<"0", "d", "6">>,
     <<"b", "a", "n", "a", "n", "a">>}

\* toHitBonus, targetAC: z.number(); damageDice: z.string().
ToHitBonuses == {0 - 10, 0, 5, 12}
ArmorClasses == {12, 30}
DamageDice ==
    {<<"1", "d", "4", "+", "0">>,
     <<"1", "d", "4", "+", "2">>,
     <<"2", "d", "2", "-", "5">>,
     <<"2", "D", "2">>,
     <<"0", "d", "4">>,
     <<"1", "d", "0", "+", "1">>,
     <<"1", "d", "6", "+", "-", "1">>,
     <<"2", "d", "4", "k", "h", "1", "+", "1">>,
     <<"1", "d", "4", " ", "+", "1">>,
     <<"b", "a", "n", "a", "n", "a">>,
     <<>>}
ResolveInputs ==
    [toHitBonus : ToHitBonuses, targetAC : ArmorClasses, damageDice : DamageDice]

\* score: z.number().min(1).max(30)
Scores == 1..30

\* challengeRating: z.number().optional(), in quarters: absent, negative,
\* fractional, the ends of each tier, above 30.
ChallengeRatings ==
    {<<>>, <<0 - 4>>, <<0>>, <<2>>, <<4>>, <<8>>, <<16>>, <<20>>, <<40>>,
     <<64>>, <<68>>, <<120>>, <<124>>}
GenerateInputs ==
    [name : {"Goblin"}, type : {"monster", "player"},
     challengeRating : ChallengeRatings]
\* Math.random(), in sixtieths: a value in each quarter of [0, 1), and the
\* two ends for the draws of the scores no attack depends on.
RandomDraws == {0, 19, 39, 59}
RandomEnds == {0, 59}
Randoms ==
    [hp : RandomDraws, ac : RandomDraws, strength : RandomDraws,
     dexterity : RandomEnds, constitution : RandomEnds,
     intelligence : RandomEnds, wisdom : RandomEnds, charisma : RandomEnds]
\* The attacks of the weakest creatures, as arguments of resolve-attack.
GeneratedAttacks ==
    {generateStatBlock(in, random).attacks[1] :
        in \in {i \in GenerateInputs : i.challengeRating \in {<<0>>, <<>>}},
        random \in Randoms}
AttackInputs ==
    {[toHitBonus |-> a.toHitBonus, targetAC |-> ac, damageDice |-> a.damageDice] :
        a \in GeneratedAttacks, ac \in ArmorClasses}

\* ---------------------------------------------------------- tool calls
ParseDiceNotation ==
    /\ call.tool = "parseDiceNotation" /\ ~ call.returned
    /\ call' = Return(parseDiceNotation(call.input))
    /\ UNCHANGED <<orchestrator, page>>

ApplyKeepDrop ==
    /\ call.tool = "applyKeepDrop" /\ ~ call.returned
    /\ call' = Return(applyKeepDrop(call.input.rolls, call.input.keepDrop))
    /\ UNCHANGED <<orchestrator, page>>

RollDice ==
    /\ call.tool = "rollDice" /\ ~ call.returned
    /\ LET parsed == parseDiceNotation(call.input) IN
       IF ~ parsed.ok
       THEN call' = Return(parsed)
       ELSE \E rolls \in [1..parsed.count -> DieFaces(parsed.sides)] :
               call' = Return(rollDice(call.input, parsed, rolls))
    /\ UNCHANGED <<orchestrator, page>>

ResolveAttack ==
    /\ call.tool = "resolveAttack" /\ ~ call.returned
    /\ \E naturalRoll \in 1..20 :
         LET isCritical == naturalRoll = 20
             hit == Hit(isCritical, naturalRoll = 1,
                        naturalRoll + call.input.toHitBonus, call.input.targetAC)
             dice == DamageDiceOf(call.input.damageDice, isCritical)
         IN IF hit /\ dice.match
            THEN \E damageRolls \in [1..dice.count -> DieFaces(dice.sides)] :
                    call' = Return(resolveAttack(call.input, naturalRoll,
                                                 damageRolls, dice))
            ELSE call' = Return(resolveAttack(call.input, naturalRoll, <<>>, dice))
    /\ UNCHANGED <<orchestrator, page>>

GenerateStatBlock ==
    /\ call.tool = "generateStatBlock" /\ ~ call.returned
    /\ \E random \in Randoms :
         call' = Return(generateStatBlock(call.input, random))
    /\ UNCHANGED <<orchestrator, page>>

AbilityModifier ==
    /\ call.tool = "abilityModifier" /\ ~ call.returned
    /\ call' = Return(abilityModifier(call.input))
    /\ UNCHANGED <<orchestrator, page>>

CalculateAbilityModifier ==
    /\ call.tool = "calculateAbilityModifier" /\ ~ call.returned
    /\ call' = Return(calculateAbilityModifier(call.input))
    /\ UNCHANGED <<orchestrator, page>>

Calls ==
    {Call("parseDiceNotation", notation) : notation \in Notations}
      \cup {Call("applyKeepDrop", [rolls |-> rolls, keepDrop |-> keepDrop]) :
               rolls \in RollSeqs, keepDrop \in KeepDrops}
      \cup {Call("rollDice", notation) : notation \in RollNotations}
      \cup {Call("resolveAttack", in) : in \in ResolveInputs \cup AttackInputs}
      \cup {Call("generateStatBlock", in) : in \in GenerateInputs}
      \cup {Call("abilityModifier", score) : score \in Scores}
      \cup {Call("calculateAbilityModifier", score) : score \in Scores}

ToolsInit ==
    /\ call \in Calls
    /\ arenas = [a \in ArenaIds |-> [status |-> "setup"]]
    /\ chatMessages = <<>>
    /\ pc = [r \in Runs |-> "idle"]
    /\ request = [r \in Runs |-> NoRequest]
    /\ connected = [r \in Runs |-> TRUE]
    /\ arenaId = [r \in Runs |-> "a0"]
    /\ response = [r \in Runs |-> NoResponse]
    /\ eventId = [r \in Runs |-> 0]
    /\ fullText = [r \in Runs |-> ""]
    /\ value = [r \in Runs |-> NoValue]
    /\ errorMessage = [r \in Runs |-> ""]
    /\ sse = [r \in Runs |-> <<>>]
    /\ items = [r \in Runs |-> <<>>]
    /\ agentInvoked = [r \in Runs |-> FALSE]
    /\ page = NoPage

ToolsNext ==
    \/ ParseDiceNotation
    \/ ApplyKeepDrop
    \/ RollDice
    \/ ResolveAttack
    \/ GenerateStatBlock
    \/ AbilityModifier
    \/ CalculateAbilityModifier

ToolsSpec == ToolsInit /\ [][ToolsNext]_vars

\* ------------------------------------------------- claims about the tools
\* The grammar of the notation as the specification writes it:
\* <count>d<sides>[<sel-op><sel-n>][<sign><modifier>], the selector token
\* in either case, the literals non-negative decimal integers.
Literal(t) == t # <<>> /\ \A i \in 1..Len(t) : t[i] \in Digit
RECURSIVE LiteralValue(_)
LiteralValue(t) ==
    IF t = <<>> THEN 0
    ELSE 10 * LiteralValue(SubSeq(t, 1, Len(t) - 1))
           + (CHOOSE v \in 0..9 : DigitChars[v + 1] = t[Len(t)])
SelOp(t) ==
    CASE t \in {<<x, y>> : x \in {"k", "K"}, y \in {"h", "H"}} -> "kh"
      [] t \in {<<x, y>> : x \in {"k", "K"}, y \in {"l", "L"}} -> "kl"
      [] t \in {<<x, y>> : x \in {"d", "D"}, y \in {"h", "H"}} -> "dh"
      [] t \in {<<x, y>> : x \in {"d", "D"}, y \in {"l", "L"}} -> "dl"
      [] OTHER -> ""
GrammarSelection(t) ==
    IF t = <<>> THEN [type |-> "null", n |-> 0]
    ELSE [type |-> SelOp(SubSeq(t, 1, 2)), n |-> LiteralValue(SubSeq(t, 3, Len(t)))]
GrammarModifier(t) ==
    IF t = <<>> THEN 0
    ELSE IF t[1] = "-" THEN 0 - LiteralValue(Tail(t))
    ELSE LiteralValue(Tail(t))
\* The DiceSpecs the grammar reads from the string s: none, or one.
GrammarSpecs(s) ==
    LET n == Len(s) IN
    {[ok |-> TRUE,
      count |-> LiteralValue(SubSeq(s, 1, c[1])),
      sides |-> LiteralValue(SubSeq(s, c[1] + 2, c[2])),
      keepDrop |-> GrammarSelection(SubSeq(s, c[2] + 1, c[3])),
      modifier |-> GrammarModifier(SubSeq(s, c[3] + 1, n))] :
       c \in {c \in (1..n) \X (1..n) \X (1..n) :
               /\ c[1] + 1 < c[2] /\ c[2] <= c[3]
               /\ Literal(SubSeq(s, 1, c[1]))
               /\ s[c[1] + 1] = "d"
               /\ Literal(SubSeq(s, c[1] + 2, c[2]))
               /\ \/ c[3] = c[2]
                  \/ /\ c[3] >= c[2] + 3
                     /\ SelOp(SubSeq(s, c[2] + 1, c[2] + 2)) # ""
                     /\ Literal(SubSeq(s, c[2] + 3, c[3]))
               /\ \/ c[3] = n
                  \/ /\ s[c[3] + 1] \in {"+", "-"}
                     /\ Literal(SubSeq(s, c[3] + 2, n))}}

\* C13: every DiceSpec that parse returns has count >= 1 and sides >= 1.
C13_PositiveCountAndSides ==
    (Returned("parseDiceNotation") /\ call.output.ok)
        => (call.output.count >= 1 /\ call.output.sides >= 1)

\* C14: for every string of the grammar parse returns exactly the literal
\* count, sides, selection (operator lower-cased, n) or none and the signed
\* modifier (0 when absent); for every other string parse fails with an
\* invalid-notation error.
C14_ParseRoundTrip ==
    Returned("parseDiceNotation")
        => IF GrammarSpecs(call.input) = {}
           THEN call.output = Thrown("Invalid dice notation")
           ELSE call.output \in GrammarSpecs(call.input)

\* Multisets of rolls.
CountOf(seq, v) == Cardinality({i \in DOMAIN seq : seq[i] = v})
Values(seq) == {seq[i] : i \in DOMAIN seq}
SameMultiset(a, b) ==
    \A v \in Values(a) \cup Values(b) : CountOf(a, v) = CountOf(b, v)
SubMultiset(a, b) == \A v \in Values(a) : CountOf(a, v) <= CountOf(b, v)
\* The values of the rolls that are not in kept, a sub-multiset of rolls.
NotKept(rolls, kept) ==
    {v \in Values(rolls) : CountOf(rolls, v) > CountOf(kept, v)}
\* The n smallest (largest) rolls, one extreme taken away at a time.
RemoveOne(seq, v) ==
    LET i == CHOOSE j \in DOMAIN seq : seq[j] = v
    IN SubSeq(seq, 1, i - 1) \o SubSeq(seq, i + 1, Len(seq))
Least(seq) == CHOOSE v \in Values(seq) : \A w \in Values(seq) : v <= w
Greatest(seq) == CHOOSE v \in Values(seq) : \A w \in Values(seq) : v >= w
RECURSIVE Smallest(_, _)
Smallest(seq, n) ==
    IF n = 0 \/ seq = <<>> THEN <<>>
    ELSE <<Least(seq)>> \o Smallest(RemoveOne(seq, Least(seq)), n - 1)
RECURSIVE Largest(_, _)
Largest(seq, n) ==
    IF n = 0 \/ seq = <<>> THEN <<>>
    ELSE <<Greatest(seq)>> \o Largest(RemoveOne(seq, Greatest(seq)), n - 1)

\* C15: for every roll sequence and every n with 0 <= n <= len,
\* KeepHighest(n) returns exactly n elements whose minimum is >= every
\* element not kept and KeepLowest(n) exactly n elements whose maximum is
\* <= every element not kept; rolling 2d20kh1 keeps exactly one die, equal
\* to max(rolls).
C15_KeepExactlyN ==
    /\ Returned("applyKeepDrop")
         => LET rolls == call.input.rolls
                sel == call.input.keepDrop
                kept == call.output
            IN (sel.type \in {"kh", "kl"} /\ sel.n <= Len(rolls))
                 => /\ Len(kept) = sel.n
                    /\ SubMultiset(kept, rolls)
                    /\ \A k \in Values(kept), d \in NotKept(rolls, kept) :
                         IF sel.type = "kh" THEN k >= d ELSE k <= d
    /\ (Returned("rollDice") /\ call.output.ok
          /\ call.input = <<"2", "d", "2", "0", "k", "h", "1", "+", "5">>)
         => /\ Len(call.output.kept) = 1
            /\ call.output.kept[1] = Greatest(call.output.rolls)

\* C16: for every roll sequence and every n with 0 <= n <= len, the result
\* of DropLowest(n) together with the n smallest rolls is the original
\* multiset of rolls, and the result of DropHighest(n) together with the n
\* largest rolls is the original multiset of rolls.
C16_DropReconstructs ==
    Returned("applyKeepDrop")
      => LET rolls == call.input.rolls
             sel == call.input.keepDrop
         IN /\ (sel.type = "dl" /\ sel.n <= Len(rolls))
                 => SameMultiset(call.output \o Smallest(rolls, sel.n), rolls)
            /\ (sel.type = "dh" /\ sel.n <= Len(rolls))
                 => SameMultiset(call.output \o Largest(rolls, sel.n), rolls)
C16_Witness ==
    /\ Returned("applyKeepDrop")
    /\ call.input.keepDrop.type = "dh"
    /\ call.input.keepDrop.n = 2
    /\ call.input.rolls = <<3, 1, 2>>
    /\ call.output = <<1>>

\* C17: select never fails for any roll sequence (the empty one included)
\* and any selection with n >= 0, and its result is a sub-multiset of the
\* rolls: with no selection the rolls unchanged in generation order;
\* KeepHighest(n) and KeepLowest(n) with n > len all the rolls;
\* DropLowest(n) and DropHighest(n) with n >= len the empty sequence.
C17_SelectDegrades ==
    /\ (call.tool = "applyKeepDrop" /\ ~ call.returned) => ENABLED ApplyKeepDrop
    /\ Returned("applyKeepDrop")
         => LET rolls == call.input.rolls
                sel == call.input.keepDrop
                len == Len(call.input.rolls)
            IN /\ SubMultiset(call.output, rolls)
               /\ sel = Null => call.output = rolls
               /\ (sel.type \in {"kh", "kl"} /\ sel.n > len)
                    => SameMultiset(call.output, rolls)
               /\ (sel.type \in {"dl", "dh"} /\ sel.n >= len)
                    => call.output = <<>>
C17_Witness ==
    /\ Returned("applyKeepDrop")
    /\ call.input.keepDrop = [type |-> "kh", n |-> 3]
    /\ call.input.rolls = <<2, 1>>
    /\ call.output = <<1, 2>>

\* C18: for every toHitBonus, targetAC and natural roll in 1..20, resolve
\* returns attackRoll = naturalRoll + toHitBonus, isCritical = (naturalRoll
\* = 20), isFumble = (naturalRoll = 1) and hit = isCritical OR (NOT isFumble
\* AND attackRoll >= targetAC); a natural 20 hits and a natural 1 misses
\* with totalDamage 0, whatever the bonus and the AC.
C18_HitRule ==
    Returned("resolveAttack")
      => LET o == call.output IN
         /\ o.naturalRoll \in 1..20
         /\ o.attackRoll = o.naturalRoll + call.input.toHitBonus
         /\ o.isCritical = (o.naturalRoll = 20)
         /\ o.isFumble = (o.naturalRoll = 1)
         /\ o.hit = (o.isCritical \/ (~ o.isFumble /\ o.attackRoll >= call.input.targetAC))
         /\ o.naturalRoll = 20 => o.hit
         /\ o.naturalRoll = 1 => (~ o.hit /\ o.totalDamage = 0)
C18_Witness ==
    /\ Returned("resolveAttack")
    /\ call.input.toHitBonus = 12 /\ call.input.targetAC = 12
    /\ call.output.naturalRoll = 1
    /\ call.output.attackRoll = 13
    /\ ~ call.output.hit

\* C19: resolve never fails: for every damageDice string, well-formed or
\* not, and every natural roll it returns an outcome; when the attack hits
\* and damageDice is one that parse rejects, the outcome has hit = true,
\* empty damageRolls and totalDamage = 0.
C19_MalformedDamageTolerated ==
    /\ (call.tool = "resolveAttack" /\ ~ call.returned) => ENABLED ResolveAttack
    /\ Returned("resolveAttack")
         => /\ call.output.ok
            /\ (call.output.hit /\ ~ parseDiceNotation(call.input.damageDice).ok)
                 => /\ call.output.damageRolls = <<>>
                    /\ call.output.totalDamage = 0
C19_Witness ==
    /\ Returned("resolveAttack")
    /\ call.input.damageDice = <<"1", "d", "6", "+", "-", "1">>
    /\ call.output.hit
    /\ call.output.naturalRoll = 20
    /\ call.output.damageRolls = <<>>

\* C20: for every challenge rating and every random draw, each attack of a
\* generated Combatant has a damageDice that parse accepts and that the
\* Attack Resolver can roll; a hit made with a generated attack draws at
\* least one damage die.
C20_GeneratedDamageDiceValid ==
    /\ Returned("generateStatBlock")
         => \A i \in DOMAIN call.output.attacks :
               /\ parseDiceNotation(call.output.attacks[i].damageDice).ok
               /\ DamageMatches(call.output.attacks[i].damageDice) # {}
    /\ (Returned("resolveAttack") /\ call.input \in AttackInputs /\ call.output.hit)
         => Len(call.output.damageRolls) >= 1

\* C21: generate never fails and, for any challengeRating (absent,
\* negative, above 30 or in range) and any random draws, returns a
\* Combatant with hitPoints >= 1, maxHitPoints = hitPoints, armorClass <=
\* 25, isAlive = true and no conditions; a CR below 0 gives the results of
\* CR 0 and a CR above 30 those of CR 30.
AtChallengeRating(in, k) == [in EXCEPT !.challengeRating = <<k>>]
\* Every input at the ends of the CR range and just outside them, with
\* every stat block the generator can return for it.
GeneratedAt ==
    {<<in, generateStatBlock(in, random)>> :
        in \in {i \in GenerateInputs :
                  i.challengeRating \in {<<0 - 4>>, <<0>>, <<120>>, <<124>>}},
        random \in Randoms}
C21_GeneratorInvariants ==
    /\ (call.tool = "generateStatBlock" /\ ~ call.returned)
         => ENABLED GenerateStatBlock
    /\ Returned("generateStatBlock")
         => LET o == call.output
                given == call.input.challengeRating
            IN /\ o.ok
               /\ o.hitPoints >= 1
               /\ o.maxHitPoints = o.hitPoints
               /\ o.armorClass <= 25
               /\ o.isAlive = TRUE
               /\ o.conditions = <<>>
               /\ (given # <<>> /\ given[1] < 0)
                    => <<AtChallengeRating(call.input, 0), o>> \in GeneratedAt
               /\ (given # <<>> /\ given[1] > 120)
                    => <<AtChallengeRating(call.input, 120), o>> \in GeneratedAt
               /\ given = <<0>>
                    => <<AtChallengeRating(call.input, 0 - 4), o>> \in GeneratedAt
               /\ given = <<120>>
                    => <<AtChallengeRating(call.input, 124), o>> \in GeneratedAt
C21_Witness ==
    /\ Returned("generateStatBlock")
    /\ call.input.challengeRating = <<0 - 4>>
    /\ call.output.hitPoints = 19
    /\ call.output.armorClass = 12
    /\ call.output.attacks[1].damageDice = <<"1", "d", "6", "+", "0">>

\* C22: for every integer score in 1..30 the ability modifier is
\* floor((score - 10) / 2) (1 -> -5, 10 -> 0, 11 -> 0, 14 -> 2, 20 -> 5,
\* 30 -> 10), and its string form is the modifier prefixed with '+' exactly
\* when the modifier is >= 0.
ModifierTable == (1 :> 0 - 5) @@ (10 :> 0) @@ (11 :> 0) @@ (14 :> 2) @@ (20 :> 5) @@ (30 :> 10)
C22_AbilityModifier ==
    (Returned("abilityModifier") \/ Returned("calculateAbilityModifier"))
      => LET score == call.input
             m == call.output.modifier
             text == call.output.modifierString
         IN /\ call.output.score = score
            /\ 2 * m <= score - 10 /\ score - 10 <= 2 * m + 1
            /\ score \in DOMAIN ModifierTable => m = ModifierTable[score]
            /\ Len(text) >= 2
            /\ (text[1] = "+") = (m >= 0)
            /\ Literal(Tail(text))
            /\ IF m >= 0 THEN LiteralValue(Tail(text)) = m
               ELSE text[1] = "-" /\ LiteralValue(Tail(text)) = 0 - m
C22_Witness ==
    /\ Returned("calculateAbilityModifier")
    /\ call.input = 1
    /\ call.output.modifier = 0 - 5
    /\ call.output.modifierString = <<"-", "5">>

\* C28: on a hit, resolve parses damageDice with the grammar of parse:
\* every notation that parse accepts (with at least one die), including
\* those with a keep/drop selector, is rolled and yields a non-empty
\* damageRolls, and only strings that parse rejects yield zero damage as
\* malformed.
C28_ResolverUsesParseGrammar ==
    (Returned("resolveAttack") /\ call.output.hit)
      => LET parsed == parseDiceNotation(call.input.damageDice) IN
         /\ (parsed.ok /\ parsed.count >= 1) => call.output.damageRolls # <<>>
         /\ ~ parsed.ok => (call.output.damageRolls = <<>> /\ call.output.totalDamage = 0)

\* C29: for a damageDice <count>d<sides>[+-modifier]: a hit that is not
\* critical draws exactly count dice, a critical hit exactly 2 * count
\* dice with the modifier applied once, each die in 1..sides, and
\* totalDamage = max(0, sum(damageRolls) + modifier); without a hit
\* damageRolls is empty and totalDamage = 0; totalDamage is never negative.
PlainSpecs(s) == {g \in GrammarSpecs(s) : g.keepDrop.type = "null"}
C29_DamageRolls ==
    Returned("resolveAttack")
      => LET o == call.output IN
         /\ o.totalDamage >= 0
         /\ ~ o.hit => (o.damageRolls = <<>> /\ o.totalDamage = 0)
         /\ \A g \in PlainSpecs(call.input.damageDice) :
              o.hit
                => /\ Len(o.damageRolls) = IF o.isCritical THEN 2 * g.count ELSE g.count
                   /\ \A i \in DOMAIN o.damageRolls : o.damageRolls[i] \in 1..g.sides
                   /\ LET total == Sum(o.damageRolls) + g.modifier IN
                      o.totalDamage = IF total > 0 THEN total ELSE 0

\* C30: for every parsed DiceSpec and every sequence of random draws,
\* evaluate returns rolls of length count, each in 1..sides, in generation
\* order; kept = select(rolls, selection); total = sum(kept) + modifier.
C30_Evaluate ==
    (Returned("rollDice") /\ call.output.ok)
      => LET o == call.output
             parsed == parseDiceNotation(call.input)
         IN /\ Len(o.rolls) = parsed.count
            /\ \A i \in DOMAIN o.rolls : o.rolls[i] \in 1..parsed.sides
            /\ o.kept = applyKeepDrop(o.rolls, parsed.keepDrop)
            /\ o.modifier = parsed.modifier
            /\ o.total = Sum(o.kept) + parsed.modifier

\* C27: within a run the store is written before the client is told: when
\* the status=active event is emitted the persisted status is already
\* 'active'; when the status=completed event is emitted the transcript of
\* the run is already persisted and the persisted status is already
\* 'completed'; the persisted status never becomes 'completed' before the
\* transcript of that run has been inserted.
EmitsStatus(r, st) ==
    /\ Len(sse'[r]) = Len(sse[r]) + 1
    /\ sse'[r][Len(sse'[r])].event = "status"
    /\ sse'[r][Len(sse'[r])].data.status = st
C27_StoreBeforeEvent ==
    [][\A r \in Runs :
         /\ EmitsStatus(r, "active") => arenas[arenaId[r]].status = "active"
         /\ EmitsStatus(r, "completed")
              => /\ RowsBy(r) # <<>>
                 /\ arenas[arenaId[r]].status = "completed"
         /\ (pc[r] # pc'[r] /\ arenas' # arenas
               /\ arenas'[arenaId[r]].status = "completed")
              => RowsBy(r) # <<>>]_vars

\* =============================================================== access
\* The answers of the arena routes to a user, as far as the roles decide.
Ok(data) == [status |-> 200, error |-> "", data |-> data]
PassedOn == [status |-> 0, error |-> ""]

\* requireRole(minimumRole) as a middleware: 403, or await next().
requireRoleMiddleware(minimumRole, user) ==
    IF ~ requireRole(minimumRole, user)
    THEN Json(403, "Requires " \o minimumRole \o " role or higher")
    ELSE PassedOn

\* GET /
listArenas(user) ==
    Ok(IF roleOf[user] = "admin" THEN ArenaIds
       ELSE {a \in ArenaIds : createdBy[a] = user})

\* GET /:id
getArena(user, id) ==
    IF id \notin ArenaIds THEN Json(404, "Arena not found")
    ELSE IF roleOf[user] # "admin" /\ createdBy[id] # user THEN Json(403, "Forbidden")
    ELSE Ok(arenas[id])

\* GET /:id/messages
getMessages(user, id) ==
    IF id \notin ArenaIds THEN Json(404, "Arena not found")
    ELSE IF roleOf[user] = "player" /\ createdBy[id] # user THEN Json(403, "Forbidden")
    ELSE Ok(MessagesOf(id))

\* GET /:id/run up to the answer: the middleware, the lookup, the
\* ownership check, the transcript check, the stream.
runArena(user, id) ==
    IF ~ requireRole("player", user) THEN requireRoleMiddleware("player", user)
    ELSE IF id \notin ArenaIds THEN Json(404, "Arena not found")
    ELSE IF IsForbidden(id, user) THEN Json(403, "Forbidden")
    ELSE IF AlreadyRan(MessagesOf(id))
         THEN Json(400, "Combat already ran for this arena")
    ELSE StreamResponse

RespondTo(route, in) ==
    CASE route = "requireRole" -> requireRoleMiddleware(in.minimumRole, in.user)
      [] route = "GET /" -> listArenas(in.user)
      [] route = "GET /:id" -> getArena(in.user, in.id)
      [] route = "GET /:id/messages" -> getMessages(in.user, in.id)
      [] route = "GET /:id/run" -> runArena(in.user, in.id)

RequireRole ==
    /\ call.tool = "requireRole" /\ ~ call.returned
    /\ call' = Return(RespondTo(call.tool, call.input))
    /\ UNCHANGED <<orchestrator, page>>

ListArenas ==
    /\ call.tool = "GET /" /\ ~ call.returned
    /\ call' = Return(RespondTo(call.tool, call.input))
    /\ UNCHANGED <<orchestrator, page>>

GetArena ==
    /\ call.tool = "GET /:id" /\ ~ call.returned
    /\ call' = Return(RespondTo(call.tool, call.input))
    /\ UNCHANGED <<orchestrator, page>>

GetMessages ==
    /\ call.tool = "GET /:id/messages" /\ ~ call.returned
    /\ call' = Return(RespondTo(call.tool, call.input))
    /\ UNCHANGED <<orchestrator, page>>

RunArena ==
    /\ call.tool = "GET /:id/run" /\ ~ call.returned
    /\ call' = Return(RespondTo(call.tool, call.input))
    /\ UNCHANGED <<orchestrator, page>>

Roles == {"spectator", "player", "admin"}
Requests ==
    {Call("requireRole", [minimumRole |-> m, user |-> u, id |-> ""]) :
        m \in Roles, u \in Accounts}
      \cup {Call("GET /", [minimumRole |-> "", user |-> u, id |-> ""]) : u \in Accounts}
      \cup {Call(route, [minimumRole |-> "", user |-> u, id |-> id]) :
              route \in {"GET /:id", "GET /:id/messages", "GET /:id/run"},
              u \in Accounts, id \in RequestIds}

\* The store before the encounter has run, and after it has.
Stores ==
    {[arenas |-> [a \in ArenaIds |-> [status |-> "setup"]], chatMessages |-> <<>>],
     [arenas |-> [a \in ArenaIds |-> [status |-> "completed"]],
      chatMessages |-> <<[id |-> 1, arenaId |-> "a1", userId |-> "u1",
                          role |-> "assistant", content |-> "a"]>>],
     [arenas |-> [a \in ArenaIds |-> [status |-> "completed"]],
      chatMessages |-> <<[id |-> 1, arenaId |-> "a1", userId |-> "u1",
                          role |-> "assistant", content |-> "a"],
                         [id |-> 2, arenaId |-> "a1", userId |-> "u1",
                          role |-> "assistant", content |-> "b"]>>]}

AccessInit ==
    /\ call \in Requests
    /\ \E store \in Stores :
         /\ arenas = store.arenas
         /\ chatMessages = store.chatMessages
    /\ pc = [r \in Runs |-> "idle"]
    /\ request = [r \in Runs |-> NoRequest]
    /\ connected = [r \in Runs |-> TRUE]
    /\ arenaId = [r \in Runs |-> "a0"]
    /\ response = [r \in Runs |-> NoResponse]
    /\ eventId = [r \in Runs |-> 0]
    /\ fullText = [r \in Runs |-> ""]
    /\ value = [r \in Runs |-> NoValue]
    /\ errorMessage = [r \in Runs |-> ""]
    /\ sse = [r \in Runs |-> <<>>]
    /\ items = [r \in Runs |-> <<>>]
    /\ agentInvoked = [r \in Runs |-> FALSE]
    /\ page = NoPage

AccessNext ==
    \/ RequireRole
    \/ ListArenas
    \/ GetArena
    \/ GetMessages
    \/ RunArena

AccessSpec == AccessInit /\ [][AccessNext]_vars

\* C26: roles form a hierarchy admin >= player >= spectator: requireRole(min)
\* lets a request through exactly when the level of the user's role (a
\* missing role counts as spectator) is >= the level of min and otherwise
\* answers 403; on every arena endpoint a request that is allowed for a
\* role is allowed for every higher role acting on the same arena.
LevelOf(role) == CASE role = "admin" -> 2 [] role = "player" -> 1 [] OTHER -> 0
SamePosition(u, v, id) ==
    id \in ArenaIds => ((createdBy[id] = u) = (createdBy[id] = v))
C26_RoleHierarchy ==
    /\ Returned("requireRole")
         => (call.output.status = 403)
               = (LevelOf(roleOf[call.input.user]) < LevelOf(call.input.minimumRole))
    /\ (call.returned /\ call.tool \in {"GET /", "GET /:id", "GET /:id/messages", "GET /:id/run"}
          /\ call.output.status # 403)
         => \A v \in Accounts :
               (LevelOf(roleOf[v]) > LevelOf(roleOf[call.input.user])
                  /\ SamePosition(call.input.user, v, call.input.id))
                 => RespondTo(call.tool, [call.input EXCEPT !.user = v]).status # 403

\* ================================================================= page
\* ArenaPage in one viewer's browser.
MaxChunks == 2      \* characters of streamed text per run
MaxStarts == 2      \* EventSources one visit of the page creates

NoError == "(null)"
NoEvent == [type |-> "", messageEvent |-> FALSE, data |-> NoData]

\* The component as first rendered: useState initial values, both queries
\* loading.
ArenaPage(user, id) ==
    [mounted |-> TRUE, user |-> user, arenaId |-> id,
     combatText |-> "", status |-> "setup", error |-> NoError,
     isStreaming |-> FALSE,
     loadingMessages |-> TRUE, existingMessages |-> NoResponse,
     sources |-> <<>>,            \* every EventSource created, in order
     dispatched |-> NoEvent]      \* the last event a source dispatched

\* A server-sent event as the browser hands it to a listener, and the
\* plain Event of a failed or lost connection.
MessageEvent(ev) == [type |-> ev.event, messageEvent |-> TRUE, data |-> ev.data]
ConnectionErrorEvent == [type |-> "error", messageEvent |-> FALSE, data |-> NoData]

\* messages.filter(assistant).map(content).join("\n\n")
RECURSIVE Join(_, _)
Join(contents, sep) ==
    IF contents = <<>> THEN ""
    ELSE IF Len(contents) = 1 THEN contents[1]
    ELSE contents[1] \o sep \o Join(Tail(contents), sep)

fullLog(messages) ==
    LET assistant == SelectSeq(messages, LAMBDA m : m.role = "assistant")
    IN  Join([i \in 1..Len(assistant) |-> assistant[i].content], "\n\n")

\* useEffect(..., [existingMessages])
existingMessagesEffect(p) ==
    IF "data" \in DOMAIN p.existingMessages /\ Len(p.existingMessages.data) > 0
    THEN [p EXCEPT !.combatText = fullLog(p.existingMessages.data),
                   !.status = "completed"]
    ELSE p

RunUrl(id) == "/api/arenas/" \o id \o "/run"

startCombat(p) ==
    [p EXCEPT !.isStreaming = TRUE,
              !.status = "active",
              !.combatText = "",
              !.error = NoError,
              !.sources = Append(@, [url |-> RunUrl(p.arenaId),
                                     readyState |-> "connecting"]),
              !.dispatched = NoEvent]

\* eventSource.close()
close(p, i) == [p EXCEPT !.sources[i].readyState = "closed"]

chunkListener(p, i, e) == [p EXCEPT !.combatText = @ \o e.data.text]

statusListener(p, i, e) ==
    LET q == [p EXCEPT !.status = e.data.status]
    IN  IF e.data.status = "completed"
        THEN [close(q, i) EXCEPT !.isStreaming = FALSE]
        ELSE q

errorListener_LeaveOpen(p, i, e) ==
    [p EXCEPT !.error = IF e.messageEvent THEN e.data.error ELSE "Connection lost",
              !.status = "error",
              !.isStreaming = FALSE]
errorListener(p, i, e) ==
    close([p EXCEPT !.error = IF e.messageEvent THEN e.data.error
                              ELSE "Connection lost",
                    !.status = "error",
                    !.isStreaming = FALSE], i)

\* eventSource.onerror: the handler of every event of type "error",
\* registered after the listener above and so run after it.
onerror(p, i) ==
    IF p.sources[i].readyState = "closed"
    THEN [p EXCEPT !.status = IF @ # "completed" THEN "error" ELSE @,
                   !.error = IF p.status # "completed"
                             THEN "Connection closed unexpectedly" ELSE @,
                   !.isStreaming = FALSE]
    ELSE p

\* The listeners of source i run on event e, in the order they were added.
Dispatch(p, i, e) ==
    LET q == CASE e.type = "chunk" -> chunkListener(p, i, e)
               [] e.type = "status" -> statusListener(p, i, e)
               [] e.type = "error" -> onerror(errorListener(p, i, e), i)
    IN  [q EXCEPT !.dispatched = e]

\* What the page renders.
StartOffered(p) == ~ p.loadingMessages /\ p.combatText = "" /\ p.status = "setup"
RetryOffered(p) == p.error # NoError /\ p.error # ""

\* What the messages query can end with: the route's answer, or no answer.
FetchOutcomes(user, id) == {getMessages(user, id), NoResponse}

\* What the run stream can carry.
ServerErrors == {"agent stream failed"}
WireEvents ==
    {StatusEvent("active"), StatusEvent("completed")}
      \cup {ChunkEvent(d) : d \in Deltas}
      \cup {ErrorEvent(msg) : msg \in ServerErrors}

\* The messages query settles and the effect runs.
MessagesLoaded ==
    /\ page.mounted /\ page.loadingMessages
    /\ \E res \in FetchOutcomes(page.user, page.arenaId) :
         page' = existingMessagesEffect([page EXCEPT !.loadingMessages = FALSE,
                                                     !.existingMessages = res])
    /\ UNCHANGED <<call, orchestrator>>

\* onClick of Start Combat.
ClickStart ==
    /\ page.mounted /\ StartOffered(page)
    /\ Len(page.sources) < MaxStarts
    /\ page' = startCombat(page)
    /\ UNCHANGED <<call, orchestrator>>

\* onClick of Retry.
ClickRetry ==
    /\ page.mounted /\ RetryOffered(page)
    /\ Len(page.sources) < MaxStarts
    /\ page' = startCombat(page)
    /\ UNCHANGED <<call, orchestrator>>

\* The run request is answered with the event stream.
Open ==
    /\ page.mounted
    /\ \E i \in DOMAIN page.sources :
         /\ page.sources[i].readyState = "connecting"
         /\ runArena(page.user, page.arenaId) = StreamResponse
         /\ page' = [page EXCEPT !.sources[i].readyState = "open"]
    /\ UNCHANGED <<call, orchestrator>>

\* The run request is answered with an error status: the browser fails
\* the connection and fires a plain error event.
Refused ==
    /\ page.mounted
    /\ \E i \in DOMAIN page.sources :
         /\ page.sources[i].readyState = "connecting"
         /\ runArena(page.user, page.arenaId) # StreamResponse
         /\ page' = Dispatch(close(page, i), i, ConnectionErrorEvent)
    /\ UNCHANGED <<call, orchestrator>>

\* The connection drops or the stream ends: the browser starts to
\* reconnect and fires a plain error event.
ConnectionLost ==
    /\ page.mounted
    /\ \E i \in DOMAIN page.sources :
         /\ page.sources[i].readyState # "closed"
         /\ page' = Dispatch([page EXCEPT !.sources[i].readyState = "connecting"],
                             i, ConnectionErrorEvent)
    /\ UNCHANGED <<call, orchestrator>>

\* The run behind an open stream stores its transcript.
TranscriptStored ==
    /\ page.mounted
    /\ \E i \in DOMAIN page.sources : page.sources[i].readyState = "open"
    /\ chatMessages = <<>>
    /\ chatMessages' = Append(chatMessages,
          [id |-> 1, arenaId |-> page.arenaId, userId |-> page.user,
           role |-> "assistant", content |-> page.combatText])
    /\ UNCHANGED <<call, page, arenas, pc, request, connected, arenaId, response,
                   runLocal>>

\* An event of the stream arrives at an open source.
Receive ==
    /\ page.mounted
    /\ \E i \in DOMAIN page.sources, ev \in WireEvents :
         /\ page.sources[i].readyState = "open"
         /\ ev.event = "chunk" => Len(page.combatText) < MaxChunks
         /\ ev = StatusEvent("completed") => MessagesOf(page.arenaId) # <<>>
         /\ page' = Dispatch(page, i, MessageEvent(ev))
    /\ UNCHANGED <<call, orchestrator>>

\* The viewer loads the page again: the document and its connections go,
\* the component starts over.
Revisit ==
    /\ page.mounted /\ ~ page.loadingMessages
    /\ page' = ArenaPage(page.user, page.arenaId)
    /\ UNCHANGED <<call, orchestrator>>

PageInit ==
    /\ \E user \in Accounts, id \in RequestIds : page = ArenaPage(user, id)
    /\ \E store \in Stores :
         /\ arenas = store.arenas
         /\ chatMessages = store.chatMessages
    /\ call = NoCall
    /\ pc = [r \in Runs |-> "idle"]
    /\ request = [r \in Runs |-> NoRequest]
    /\ connected = [r \in Runs |-> TRUE]
    /\ arenaId = [r \in Runs |-> "a0"]
    /\ response = [r \in Runs |-> NoResponse]
    /\ eventId = [r \in Runs |-> 0]
    /\ fullText = [r \in Runs |-> ""]
    /\ value = [r \in Runs |-> NoValue]
    /\ errorMessage = [r \in Runs |-> ""]
    /\ sse = [r \in Runs |-> <<>>]
    /\ items = [r \in Runs |-> <<>>]
    /\ agentInvoked = [r \in Runs |-> FALSE]

PageNext ==
    \/ MessagesLoaded
    \/ ClickStart
    \/ ClickRetry
    \/ Open
    \/ Refused
    \/ ConnectionLost
    \/ TranscriptStored
    \/ Receive
    \/ Revisit

PageSpec == PageInit /\ [][PageNext]_vars

\* The connections of the page that are initiated or open.
NotClosed(p) == {i \in DOMAIN p.sources : p.sources[i].readyState # "closed"}

ConnectionLostMessages == {"Connection lost", "Connection closed unexpectedly"}

\* C24: an 'error' event with a payload puts the page in status 'error'
\* showing the server's message; a stream that ends with neither
\* status=completed nor an error event puts it in status 'error' with a
\* connection-lost message; once status=completed was received, no event of
\* the connection changes the status away from 'completed'.
C24_FailureKinds ==
    /\ []((page.dispatched.type = "error" /\ page.dispatched.messageEvent)
            => /\ page.status = "error"
               /\ page.error = page.dispatched.data.error)
    /\ [](page.dispatched = ConnectionErrorEvent
            => /\ page.status = "error"
               /\ page.error \in ConnectionLostMessages)
    /\ [][(page.status = "completed"
             /\ Len(page'.sources) = Len(page.sources)
             /\ page'.loadingMessages = page.loadingMessages)
            => page'.status = "completed"]_vars

\* The transcript as the page shows it: the messages' contents, a blank
\* line between two.
RECURSIVE Transcript(_)
Transcript(messages) ==
    IF messages = <<>> THEN ""
    ELSE IF Len(messages) = 1 THEN messages[1].content
    ELSE messages[1].content \o "\n\n" \o Transcript(Tail(messages))

\* C25: when the encounter has a persisted message, the loaded
\* page shows the transcript with status 'completed', offers no control
\* that starts a run and has issued no run request.
C25_PersistedNeverRerun ==
    (~ page.loadingMessages /\ page.sources = <<>>
       /\ MessagesOf(page.arenaId) # <<>>)
      => /\ page.status = "completed"
         /\ page.combatText = Transcript(MessagesOf(page.arenaId))
         /\ ~ StartOffered(page)
         /\ ~ RetryOffered(page)

====
